---- MODULE Spec2Model ----
(***************************************************************************)
(* Model of codecarbon/external/geography.py: CloudMetadata.from_utils,    *)
(* GeoMetadata.__init__, _query_ip_location, get_grid_area and from_geo_js. *)
(*                                                                         *)
(* Python values are records [t, s, n]: t is the type ("none", "str" or    *)
(* "num"), s the characters of a str (a sequence of one-character          *)
(* strings), n the number (coordinates in tenths of a degree).             *)
(* The zone labels of GRID_AREA_MAPPING are written in pinyin: HUABEI is   *)
(* the label of the north grid, UNKNOWN the label returned when no         *)
(* province matches.                                                       *)
(***************************************************************************)
EXTENDS Integers, Sequences, FiniteSets, TLC

VARIABLES pc, rec, data, addr, calls, zone, exc, geo, env, cloud

vars == <<pc, rec, data, addr, calls, zone, exc, geo, env, cloud>>

-----------------------------------------------------------------------------
(* Python values *)

None == [t |-> "none", s |-> <<>>, n |-> 0]
Str(chars) == [t |-> "str", s |-> chars, n |-> 0]
Num(k) == [t |-> "num", s |-> <<>>, n |-> k]

\* bool(v): None, "" and 0 are falsy
Truthy(v) ==
    CASE v.t = "none" -> FALSE
      [] v.t = "str" -> Len(v.s) > 0
      [] OTHER -> v.n # 0

\* a or b
Or(a, b) == IF Truthy(a) THEN a ELSE b

LowerLetters == <<"a", "b", "c", "d", "e", "f", "g", "h", "i", "j", "k", "l", "m", "n", "o", "p", "q", "r", "s", "t", "u", "v", "w", "x", "y", "z">>
UpperLetters == <<"A", "B", "C", "D", "E", "F", "G", "H", "I", "J", "K", "L", "M", "N", "O", "P", "Q", "R", "S", "T", "U", "V", "W", "X", "Y", "Z">>

LowerChar(c) ==
    IF \E i \in 1..Len(UpperLetters) : UpperLetters[i] = c
    THEN LowerLetters[CHOOSE i \in 1..Len(UpperLetters) : UpperLetters[i] = c]
    ELSE c

UpperChar(c) ==
    IF \E i \in 1..Len(LowerLetters) : LowerLetters[i] = c
    THEN UpperLetters[CHOOSE i \in 1..Len(LowerLetters) : LowerLetters[i] = c]
    ELSE c

\* str.lower(), str.upper() and str.capitalize() on the characters
LowerStr(chars) == [i \in 1..Len(chars) |-> LowerChar(chars[i])]
UpperStr(chars) == [i \in 1..Len(chars) |-> UpperChar(chars[i])]
Capitalize(chars) ==
    [i \in 1..Len(chars) |-> IF i = 1 THEN UpperChar(chars[i]) ELSE LowerChar(chars[i])]

\* sub in chars
Contains(sub, chars) ==
    \E i \in 0..(Len(chars) - Len(sub)) : SubSeq(chars, i + 1, i + Len(sub)) = sub

-----------------------------------------------------------------------------
(* GRID_AREA_MAPPING, in the order of the dict literal *)

HUABEI == "huabei"
DONGBEI == "dongbei"
HUADONG == "huadong"
HUAZHONG == "huazhong"
XIBEI == "xibei"
NANFANG == "nanfang"
XINAN == "xinan"
UNKNOWN == "weizhi"

GRID_AREA_MAPPING == <<
    <<<<"b", "e", "i", "j", "i", "n", "g">>, HUABEI>>,
    <<<<"t", "i", "a", "n", "j", "i", "n">>, HUABEI>>,
    <<<<"h", "e", "b", "e", "i">>, HUABEI>>,
    <<<<"s", "h", "a", "n", "x", "i">>, HUABEI>>,
    <<<<"s", "h", "a", "n", "d", "o", "n", "g">>, HUABEI>>,
    <<<<"n", "e", "i", "m", "e", "n", "g", "g", "u">>, HUABEI>>,
    <<<<"l", "i", "a", "o", "n", "i", "n", "g">>, DONGBEI>>,
    <<<<"j", "i", "l", "i", "n">>, DONGBEI>>,
    <<<<"h", "e", "i", "l", "o", "n", "g", "j", "i", "a", "n", "g">>, DONGBEI>>,
    <<<<"s", "h", "a", "n", "g", "h", "a", "i">>, HUADONG>>,
    <<<<"j", "i", "a", "n", "g", "s", "u">>, HUADONG>>,
    <<<<"z", "h", "e", "j", "i", "a", "n", "g">>, HUADONG>>,
    <<<<"a", "n", "h", "u", "i">>, HUADONG>>,
    <<<<"f", "u", "j", "i", "a", "n">>, HUADONG>>,
    <<<<"h", "e", "n", "a", "n">>, HUAZHONG>>,
    <<<<"h", "u", "b", "e", "i">>, HUAZHONG>>,
    <<<<"h", "u", "n", "a", "n">>, HUAZHONG>>,
    <<<<"j", "i", "a", "n", "g", "x", "i">>, HUAZHONG>>,
    <<<<"s", "h", "a", "a", "n", "x", "i">>, XIBEI>>,
    <<<<"g", "a", "n", "s", "u">>, XIBEI>>,
    <<<<"q", "i", "n", "g", "h", "a", "i">>, XIBEI>>,
    <<<<"n", "i", "n", "g", "x", "i", "a">>, XIBEI>>,
    <<<<"x", "i", "n", "j", "i", "a", "n", "g">>, XIBEI>>,
    <<<<"g", "u", "a", "n", "g", "d", "o", "n", "g">>, NANFANG>>,
    <<<<"g", "u", "a", "n", "g", "x", "i">>, NANFANG>>,
    <<<<"y", "u", "n", "n", "a", "n">>, NANFANG>>,
    <<<<"g", "u", "i", "z", "h", "o", "u">>, NANFANG>>,
    <<<<"h", "a", "i", "n", "a", "n">>, NANFANG>>,
    <<<<"s", "i", "c", "h", "u", "a", "n">>, XINAN>>,
    <<<<"c", "h", "o", "n", "g", "q", "i", "n", "g">>, XINAN>>
>>

Provinces == {GRID_AREA_MAPPING[i][1] : i \in 1..Len(GRID_AREA_MAPPING)}

\* GRID_AREA_MAPPING[p]
GridAreaOf(p) ==
    GRID_AREA_MAPPING[CHOOSE i \in 1..Len(GRID_AREA_MAPPING) : GRID_AREA_MAPPING[i][1] = p][2]

-----------------------------------------------------------------------------
(* String literals, as characters *)

S_China == <<"C", "h", "i", "n", "a">>
S_CHINA == <<"C", "H", "I", "N", "A">>
S_Canada == <<"C", "a", "n", "a", "d", "a">>
S_Guangdong == <<"G", "u", "a", "n", "g", "d", "o", "n", "g">>
S_guangdong == <<"g", "u", "a", "n", "g", "d", "o", "n", "g">>
S_Quebec == <<"Q", "u", "e", "b", "e", "c">>
S_quebec == <<"q", "u", "e", "b", "e", "c">>
S_CHN == <<"C", "H", "N">>
S_chn == <<"c", "h", "n">>
S_CN == <<"C", "N">>
S_CAN == <<"C", "A", "N">>
S_CA == <<"C", "A">>
S_can == <<"c", "a", "n">>
S_ca == <<"c", "a">>
SuffixProvince == <<" ", "P", "r", "o", "v", "i", "n", "c", "e">>
SuffixCity == <<" ", "C", "i", "t", "y">>
S_lat == <<"2", "3", ".", "1">>
S_lon == <<"1", "1", "3", ".", "3">>
S_abc == <<"a", "b", "c">>
S_aws == <<"a", "w", "s">>
S_AWS == <<"A", "W", "S">>
S_azure == <<"a", "z", "u", "r", "e">>
S_gcp == <<"g", "c", "p">>
S_GCP == <<"G", "C", "P">>
S_oracle == <<"o", "r", "a", "c", "l", "e">>
S_zone == <<"z", "o", "n", "e", "s", "/", "u", "s", "-", "c", "e", "n", "t", "r", "a", "l", "1", "-", "a">>
S_us_central1 == <<"u", "s", "-", "c", "e", "n", "t", "r", "a", "l", "1">>
S_eu_west == <<"e", "u", "-", "w", "e", "s", "t">>
S_eastus == <<"e", "a", "s", "t", "u", "s">>
S_us_east_1 == <<"u", "s", "-", "e", "a", "s", "t", "-", "1">>

-----------------------------------------------------------------------------
(* GeoMetadata.__init__ *)

UpperOrNone(v) == IF Truthy(v) THEN Str(UpperStr(v.s)) ELSE None
LowerOrNone(v) == IF Truthy(v) THEN Str(LowerStr(v.s)) ELSE None

GeoMetadataInit(iso3, country, region, lat, lon, iso2) ==
    [country_iso_code |-> UpperOrNone(iso3),
     country_name |-> country,
     region |-> LowerOrNone(region),
     latitude |-> lat,
     longitude |-> lon,
     country_2letter_iso_code |-> UpperOrNone(iso2)]

\* GeoMetadata(): every argument left at its default
Blank == GeoMetadataInit(None, None, None, None, None, None)

\* the objects get_grid_area is called on
Constructed ==
    {Blank,
     GeoMetadataInit(Str(S_chn), Str(S_China), Str(S_Guangdong), Num(231), Num(1133), Str(S_CN)),
     GeoMetadataInit(Str(S_can), Str(S_Canada), Str(S_Quebec), Num(468), Num(-712), Str(S_ca)),
     GeoMetadataInit(None, Str(S_China), None, Num(231), Num(1133), None)}

-----------------------------------------------------------------------------
(* Responses of the external services *)

\* a JSON body: null, {}, a non-empty value that is no object ("list"), or a
\* non-empty object, whose absent keys read as None
Body(kind, f) ==
    [kind |-> kind,
     latitude |-> f[1], lat |-> f[2], longitude |-> f[3], lon |-> f[4],
     country |-> f[5], country_code3 |-> f[6], countryCode |-> f[7],
     country_code |-> f[8], region |-> f[9], regionName |-> f[10]]

NoKeys == <<None, None, None, None, None, None, None, None, None, None>>
NullBody == Body("null", NoKeys)
EmptyBody == Body("empty", NoKeys)
ListBody == Body("list", NoKeys)

\* the keys get.geojs.io answers with
GeoJsBody(country, iso, region, coord) ==
    Body("dict", <<coord[1], None, coord[2], None, country, iso, None,
                   IF iso = None THEN None ELSE Str(S_CN), region, None>>)

\* the keys ip-api.com answers with
IpApiBody(country, iso, region, coord) ==
    Body("dict", <<None, coord[1], None, coord[2], country, None, iso, None, None, region>>)

Countries == {None, Str(S_China), Str(S_CHINA), Str(S_Canada), Num(86)}
Regions == {None, Str(<<>>), Str(S_Quebec), Str(S_Guangdong), Num(5)}
Coords == {<<None, None>>, <<Num(0), Num(1133)>>, <<Num(231), Num(1133)>>,
           <<Str(S_lat), Str(S_lon)>>, <<Str(S_abc), Str(S_lon)>>}

\* the spellings of a province: as keyed, upper-cased, capitalised, and
\* capitalised with an administrative suffix
Spellings(p) ==
    {p, UpperStr(p), Capitalize(p), Capitalize(p) \o SuffixProvince, p \o SuffixCity}

ProvinceRegions == UNION {{Str(v) : v \in Spellings(p)} : p \in Provinces}

GeoJsBodies ==
    {GeoJsBody(c, i, r, xy) : c \in Countries, i \in {None, Str(S_CHN)}, r \in Regions, xy \in Coords}
    \cup {GeoJsBody(Str(S_China), None, r, <<None, None>>) : r \in ProvinceRegions}

IpApiBodies ==
    {IpApiBody(c, i, r, xy) : c \in Countries, i \in {None, Str(S_CN)}, r \in Regions, xy \in Coords}
    \cup {IpApiBody(Str(S_CHINA), None, r, <<None, None>>) : r \in ProvinceRegions}

\* outcomes of requests.get + raise_for_status + json: the three failures
\* raise a requests.RequestException (a body that is no JSON raises
\* requests.JSONDecodeError, a RequestException since requests 2.27)
Failures == {"timeout", "status", "badjson"}
Failed(o) == [out |-> o, body |-> NullBody]
Answered(b) == [out |-> "ok", body |-> b]

PrimaryOutcomes ==
    {Failed(o) : o \in Failures}
    \cup {Answered(b) : b \in GeoJsBodies \cup {NullBody, EmptyBody, ListBody}}

SecondaryOutcomes ==
    {Failed(o) : o \in Failures}
    \cup {Answered(b) : b \in IpApiBodies \cup {NullBody, EmptyBody, ListBody}}

\* outcomes of Nominatim.reverse: an exception, no location, or a location
\* whose raw address may carry "state" and "country"
Address(found, state, country) == [found |-> found, state |-> state, country |-> country]
NoAddress == Address("none", None, None)

ReverseOutcomes ==
    {Address("raise", None, None), NoAddress}
    \cup {Address("loc", Str(Capitalize(p)), Str(S_China)) : p \in Provinces}
    \cup {Address("loc", s, c) : s \in {None, Str(S_Quebec), Str(S_Guangdong \o SuffixProvince), Num(5)},
                                 c \in {None, Str(S_China), Str(S_Canada)}}

-----------------------------------------------------------------------------
(* GeoMetadata.get_grid_area *)

NoZone == "none"
NoExc == "none"

\* self.country_name and "china" in self.country_name.lower():
\* "raise" when the name is a truthy value without lower()
IsChina(country) ==
    CASE ~Truthy(country) -> "no"
      [] country.t # "str" -> "raise"
      [] OTHER -> IF Contains(LowerStr(S_China), LowerStr(country.s)) THEN "yes" ELSE "no"

\* the match by equality with a key instead of containment of a key
MatchProvince_Exact(region) ==
    IF region \in Provinces THEN GridAreaOf(region) ELSE UNKNOWN

\* for province, grid_area in GRID_AREA_MAPPING.items():
\*     if province in region: return grid_area
\* return "未知"
MatchProvince(region) ==
    LET hits == {i \in 1..Len(GRID_AREA_MAPPING) : Contains(GRID_AREA_MAPPING[i][1], region)}
    IN  IF hits = {} THEN UNKNOWN
        ELSE GRID_AREA_MAPPING[CHOOSE i \in hits : \A j \in hits : i <= j][2]

\* the region the IP response yields: data.get("region") or
\* data.get("regionName") or self.region or ""
MergedRegion(r, d) == Or(Or(Or(d.region, d.regionName), r.region), Str(<<>>))

\* lines 127-135: the assignments up to the one that raises, if one does
MergeIp(r, d) ==
    LET upto == [r EXCEPT !.latitude = Or(d.latitude, d.lat),
                          !.longitude = Or(d.longitude, d.lon),
                          !.country_name = d.country,
                          !.country_iso_code =
                              Or(Or(d.country_code3, d.countryCode), r.country_iso_code)]
        reg == MergedRegion(r, d)
    IN  IF reg.t = "str"
        THEN [rec |-> [upto EXCEPT !.region = Str(LowerStr(reg.s))], exc |-> NoExc]
        ELSE [rec |-> upto, exc |-> "AttributeError"]

Returned(r, z) == [pc |-> "done", rec |-> r, zone |-> z, exc |-> NoExc]
Raised(r, e) == [pc |-> "raised", rec |-> r, zone |-> NoZone, exc |-> e]
Goto(l, r) == [pc |-> l, rec |-> r, zone |-> NoZone, exc |-> NoExc]

\* lines 155-156: the last section, up to its reverse-geocoding call
LastSection(r) ==
    IF Truthy(r.latitude) /\ Truthy(r.longitude)
    THEN Goto("rev_fb", r)
    ELSE Returned(r, UNKNOWN)

\* lines 138-152, up to the reverse-geocoding call
ChinaSection(r) ==
    IF ~Truthy(r.region) /\ Truthy(r.latitude) /\ Truthy(r.longitude)
    THEN Goto("rev_cn", r)
    ELSE Returned(r, MatchProvince(r.region.s))

\* the merge followed by the province match whatever the country is
AfterQuery_NoCountryCheck(r, d) ==
    CASE d.kind \in {"null", "empty"} -> LastSection(r)
      [] d.kind = "list" -> Raised(r, "AttributeError")
      [] OTHER ->
          LET m == MergeIp(r, d)
          IN  IF m.exc # NoExc THEN Raised(m.rec, m.exc) ELSE ChinaSection(m.rec)

\* lines 125-156: get_grid_area from the return of _query_ip_location up to
\* its next external call or its return
AfterQuery(r, d) ==
    CASE d.kind \in {"null", "empty"} -> LastSection(r)
      [] d.kind = "list" -> Raised(r, "AttributeError")
      [] OTHER ->
          LET m == MergeIp(r, d)
              china == IsChina(m.rec.country_name)
          IN  CASE m.exc # NoExc -> Raised(m.rec, m.exc)
                [] china = "raise" -> Raised(m.rec, "AttributeError")
                [] china = "yes" -> ChinaSection(m.rec)
                [] OTHER -> LastSection(m.rec)

\* lines 142-152: the reverse lookup inside the China branch and the match
AfterReverseChina(r, a) ==
    LET reg == CASE a.found = "raise" -> r.region
                 [] a.found = "none" -> Str(<<>>)
                 [] a.state.t = "none" -> Str(<<>>)
                 [] a.state.t = "str" -> Str(LowerStr(a.state.s))
                 [] OTHER -> r.region
        r2 == [r EXCEPT !.region = reg]
    IN  Returned(r2, MatchProvince(IF reg.t = "str" THEN reg.s ELSE <<>>))

\* the last section assigning the address over the fields already known
AfterReverseLast_Replace(r, a) ==
    IF a.found # "loc" \/ a.state.t # "str" \/ a.country.t # "str"
    THEN Returned(r, UNKNOWN)
    ELSE LET r2 == [r EXCEPT !.country_name = a.country,
                             !.region = Str(LowerStr(a.state.s))]
         IN  IF IsChina(a.country) = "yes"
             THEN Returned(r2, MatchProvince(r2.region.s))
             ELSE Returned(r2, UNKNOWN)

\* lines 157-169: the reverse lookup of the last section and the match
AfterReverseLast(r, a) ==
    IF a.found = "raise" THEN Returned(r, UNKNOWN)
    ELSE
      LET country == Or(r.country_name, IF a.found = "loc" THEN a.country ELSE None)
          r1 == [r EXCEPT !.country_name = country]
          state == IF a.found = "loc" /\ a.state.t # "none" THEN a.state ELSE Str(<<>>)
          china == IsChina(country)
      IN  CASE ~Truthy(r.region) /\ state.t # "str" -> Returned(r1, UNKNOWN)
            [] OTHER ->
                LET reg == IF Truthy(r.region) THEN r.region ELSE Str(LowerStr(state.s))
                    r2 == [r1 EXCEPT !.region = reg]
                IN  CASE china = "raise" -> Returned(r2, UNKNOWN)
                      [] china = "yes" -> Returned(r2, MatchProvince(reg.s))
                      [] OTHER -> Returned(r2, UNKNOWN)

-----------------------------------------------------------------------------
(* GeoMetadata.from_geo_js *)

Digits == <<"0", "1", "2", "3", "4", "5", "6", "7", "8", "9">>
IsDigit(c) == \E i \in 1..Len(Digits) : Digits[i] = c
DigitVal(c) == (CHOOSE i \in 1..Len(Digits) : Digits[i] = c) - 1

RECURSIVE IntOf(_)
IntOf(chars) ==
    IF chars = <<>> THEN 0
    ELSE 10 * IntOf(SubSeq(chars, 1, Len(chars) - 1)) + DigitVal(chars[Len(chars)])

\* float(str) for an unsigned decimal literal with at most one fraction
\* digit, in tenths; ok is FALSE where float raises ValueError
ParseFloat(chars) ==
    LET dots == {i \in 1..Len(chars) : chars[i] = "."}
        dot == IF dots = {} THEN Len(chars) + 1 ELSE CHOOSE i \in dots : TRUE
        whole == SubSeq(chars, 1, dot - 1)
        frac == SubSeq(chars, dot + 1, Len(chars))
        ok == /\ Cardinality(dots) <= 1
              /\ Len(whole) + Len(frac) >= 1
              /\ Len(frac) <= 1
              /\ \A i \in 1..Len(chars) : i \in dots \/ IsDigit(chars[i])
    IN  [ok |-> ok,
         n |-> IF ok THEN 10 * IntOf(whole) + IntOf(frac) ELSE 0]

\* float(v): TypeError on None, ValueError on a str that is no number
Float(v) ==
    CASE v.t = "none" -> [ok |-> FALSE, n |-> 0]
      [] v.t = "num" -> [ok |-> TRUE, n |-> v.n]
      [] OTHER -> ParseFloat(v.s)

\* x.upper() / x.lower() guarded by "if x": raises on a truthy non-str
CaseFolds(v) == ~Truthy(v) \/ v.t = "str"

\* cls(...) with float() applied to the coordinates; ok is FALSE when an
\* argument or __init__ raises
TryConstruct(iso3, country, region, lat, lon, iso2) ==
    LET ok == /\ Float(lat).ok
              /\ Float(lon).ok
              /\ CaseFolds(iso3)
              /\ CaseFolds(region)
              /\ CaseFolds(iso2)
    IN  [ok |-> ok,
         rec |-> IF ok
                 THEN GeoMetadataInit(iso3, country, region,
                                      Num(Float(lat).n), Num(Float(lon).n), iso2)
                 ELSE Blank]

\* lines 204-211
DefaultLocation ==
    GeoMetadataInit(Str(S_CAN), Str(S_Canada), Str(S_Quebec), Num(468), Num(-712), Str(S_CA))

\* lines 175-183: the record built from the primary answer
FromPrimary(b) ==
    IF b.kind # "dict"
    THEN [ok |-> FALSE, rec |-> Blank]
    ELSE TryConstruct(b.country_code3, b.country, b.region, b.latitude, b.longitude,
                      b.country_code)

\* lines 189-191: res["country"] and quote_plus(country_name) succeed
HasCountry(b) == b.kind = "dict" /\ b.country.t = "str"

\* lines 194-201: the record built from the secondary answer and the code
FromSecondary(b, code) ==
    TryConstruct(code, b.country, b.regionName, b.lat, b.lon, b.countryCode)

\* outcomes of requests.get(...).json(): no raise_for_status is called
DirectFailures == {"timeout", "badjson"}

DirectPrimaryOutcomes ==
    {Failed(o) : o \in DirectFailures}
    \cup {Answered(b) : b \in GeoJsBodies \cup {NullBody, EmptyBody, ListBody}}

DirectSecondaryOutcomes ==
    {Failed(o) : o \in DirectFailures}
    \cup {Answered(b) : b \in IpApiBodies \cup {NullBody, EmptyBody, ListBody}}

\* outcomes of the api.first.org lookup: a failure, a body without "data",
\* an empty "data", or "data" whose first key is the code
Iso3Outcomes ==
    {[out |-> o, code |-> None] : o \in DirectFailures \cup {"nodata", "emptydata"}}
    \cup {[out |-> "ok", code |-> c] : c \in {Str(S_CHN), Str(S_CAN)}}

-----------------------------------------------------------------------------
(* CloudMetadata *)

IsLower(c) == \E i \in 1..Len(LowerLetters) : LowerLetters[i] = c

\* re.search(r"[a-z]+-[a-z]+[0-9]", chars).group(0): the leftmost match,
\* <<>> when there is none
SearchRegion(chars) ==
    LET n == Len(chars)
        ms == {m \in (1..n) \X (1..n) \X (1..n) :
                 /\ m[1] < m[2] /\ m[2] + 1 < m[3]
                 /\ \A x \in m[1]..(m[2] - 1) : IsLower(chars[x])
                 /\ chars[m[2]] = "-"
                 /\ \A x \in (m[2] + 1)..(m[3] - 1) : IsLower(chars[x])
                 /\ IsDigit(chars[m[3]])}
    IN  IF ms = {} THEN <<>>
        ELSE LET m == CHOOSE m \in ms : \A o \in ms : m[1] <= o[1]
             IN  SubSeq(chars, m[1], m[3])

\* what get_env_cloud_details returns: None (found = FALSE) or a provider
\* name with its metadata; absent keys of the metadata read as None
Details(found, provider, empty, region, compute, location, gzone) ==
    [found |-> found, provider |-> provider, empty |-> empty, region |-> region,
     compute |-> compute, location |-> location, zone |-> gzone]

NoDetails == Details(FALSE, <<>>, TRUE, None, FALSE, None, None)

ProviderNames == {S_aws, S_AWS, S_azure, S_gcp, S_GCP, S_oracle}

CloudDetails ==
    {NoDetails}
    \cup {Details(TRUE, p, TRUE, None, FALSE, None, None) : p \in ProviderNames}
    \cup {Details(TRUE, p, FALSE, r, c, l, z) :
            p \in ProviderNames,
            r \in {None, Str(S_us_east_1)},
            c \in BOOLEAN,
            l \in {None, Str(S_eastus)},
            z \in {None, Str(S_zone), Str(S_eu_west)}}

CloudValue(provider, region) == [provider |-> provider, region |-> region]

\* extract_region_for_provider.get(provider)(cloud_metadata): ok is FALSE
\* where the call raises
ExtractRegion(provider, m) ==
    CASE provider = S_aws -> [ok |-> TRUE, region |-> m.region]
      [] provider = S_azure -> [ok |-> m.compute, region |-> IF m.compute THEN m.location ELSE None]
      [] provider = S_gcp ->
           IF m.zone.t = "str" /\ SearchRegion(m.zone.s) # <<>>
           THEN [ok |-> TRUE, region |-> Str(SearchRegion(m.zone.s))]
           ELSE [ok |-> FALSE, region |-> None]
      [] OTHER -> [ok |-> FALSE, region |-> None]

\* the reset applied to one provider only
NoIntensityProviders_OnlyAzure == {S_azure}

\* the providers whose provider and region are reset, line 69
NoIntensityProviders == {S_aws, S_azure}

\* lines 58-75: ok is FALSE where from_utils raises
from_utils(m) ==
    IF ~m.found \/ m.empty
    THEN [ok |-> TRUE, value |-> CloudValue(None, None)]
    ELSE LET provider == LowerStr(m.provider)
             x == ExtractRegion(provider, m)
         IN  CASE ~x.ok -> [ok |-> FALSE, value |-> CloudValue(None, None)]
               [] provider \in NoIntensityProviders ->
                    [ok |-> TRUE, value |-> CloudValue(None, None)]
               [] OTHER -> [ok |-> TRUE, value |-> CloudValue(Str(provider), x.region)]

\* lines 39-41
is_on_private_infra(c) == c.provider = None /\ c.region = None

Call(svc, out) == [svc |-> svc, out |-> out]

Init ==
    /\ pc = "idle"
    /\ rec \in Constructed
    /\ data = NullBody
    /\ addr = NoAddress
    /\ calls = <<>>
    /\ zone = NoZone
    /\ exc = NoExc
    /\ geo = Blank
    /\ env = NoDetails
    /\ cloud = CloudValue(None, None)

Resume(k) ==
    /\ pc' = k.pc
    /\ rec' = k.rec
    /\ zone' = k.zone
    /\ exc' = k.exc

CallGetGridArea ==
    /\ pc = "idle"
    /\ pc' = "ip1"
    /\ UNCHANGED <<rec, data, addr, calls, zone, exc, geo, env, cloud>>

\* _query_ip_location, first url; on success the caller runs on
QueryPrimary ==
    /\ pc = "ip1"
    /\ \E o \in PrimaryOutcomes :
        /\ calls' = Append(calls, Call("geojs", o.out))
        /\ IF o.out = "ok"
           THEN data' = o.body /\ Resume(AfterQuery(rec, o.body))
           ELSE data' = data /\ pc' = "ip2" /\ UNCHANGED <<rec, zone, exc>>
    /\ UNCHANGED <<addr, geo, env, cloud>>

\* _query_ip_location, second url; when it fails too the loop ends and the
\* function returns None
QuerySecondary ==
    /\ pc = "ip2"
    /\ \E o \in SecondaryOutcomes :
        /\ calls' = Append(calls, Call("ip-api", o.out))
        /\ data' = o.body
        /\ Resume(AfterQuery(rec, o.body))
    /\ UNCHANGED <<addr, geo, env, cloud>>

ReverseInChina ==
    /\ pc = "rev_cn"
    /\ \E a \in ReverseOutcomes :
        /\ calls' = Append(calls, Call("nominatim", a.found))
        /\ addr' = a
        /\ Resume(AfterReverseChina(rec, a))
    /\ UNCHANGED <<data, geo, env, cloud>>

ReverseLast ==
    /\ pc = "rev_fb"
    /\ \E a \in ReverseOutcomes :
        /\ calls' = Append(calls, Call("nominatim", a.found))
        /\ addr' = a
        /\ Resume(AfterReverseLast(rec, a))
    /\ UNCHANGED <<data, geo, env, cloud>>

CallFromGeoJs ==
    /\ pc = "idle"
    /\ pc' = "gj1"
    /\ UNCHANGED <<rec, data, addr, calls, zone, exc, geo, env, cloud>>

\* lines 174-185
DirectPrimary ==
    /\ pc = "gj1"
    /\ \E o \in DirectPrimaryOutcomes :
        /\ calls' = Append(calls, Call("geojs", o.out))
        /\ data' = o.body
        /\ IF o.out = "ok" /\ FromPrimary(o.body).ok
           THEN geo' = FromPrimary(o.body).rec /\ pc' = "gj_done"
           ELSE geo' = geo /\ pc' = "gj2"
    /\ UNCHANGED <<rec, addr, zone, exc, env, cloud>>

\* the second except clause returning an empty record
DirectSecondary_NoDefault ==
    /\ pc = "gj2"
    /\ \E o \in DirectSecondaryOutcomes :
        /\ calls' = Append(calls, Call("ip-api", o.out))
        /\ data' = o.body
        /\ IF o.out = "ok" /\ HasCountry(o.body)
           THEN geo' = geo /\ pc' = "gj3"
           ELSE geo' = Blank /\ pc' = "gj_done"
    /\ UNCHANGED <<rec, addr, zone, exc, env, cloud>>

\* lines 187-191, 202-211
DirectSecondary ==
    /\ pc = "gj2"
    /\ \E o \in DirectSecondaryOutcomes :
        /\ calls' = Append(calls, Call("ip-api", o.out))
        /\ data' = o.body
        /\ IF o.out = "ok" /\ HasCountry(o.body)
           THEN geo' = geo /\ pc' = "gj3"
           ELSE geo' = DefaultLocation /\ pc' = "gj_done"
    /\ UNCHANGED <<rec, addr, zone, exc, env, cloud>>

\* lines 192-211
DirectIso3 ==
    /\ pc = "gj3"
    /\ \E o \in Iso3Outcomes :
        /\ calls' = Append(calls, Call("first.org", o.out))
        /\ IF o.out = "ok" /\ FromSecondary(data, o.code).ok
           THEN geo' = FromSecondary(data, o.code).rec
           ELSE geo' = DefaultLocation
        /\ pc' = "gj_done"
    /\ UNCHANGED <<rec, data, addr, zone, exc, env, cloud>>

\* CloudMetadata.from_utils()
CallFromUtils ==
    /\ pc = "idle"
    /\ \E m \in CloudDetails :
        /\ env' = m
        /\ IF from_utils(m).ok
           THEN cloud' = from_utils(m).value /\ pc' = "cloud_done" /\ exc' = exc
           ELSE cloud' = cloud /\ pc' = "cloud_raised" /\ exc' = "Error"
    /\ UNCHANGED <<rec, data, addr, calls, zone, geo>>

Next ==
    \/ CallGetGridArea
    \/ QueryPrimary
    \/ QuerySecondary
    \/ ReverseInChina
    \/ ReverseLast
    \/ CallFromGeoJs
    \/ DirectPrimary
    \/ DirectSecondary
    \/ DirectIso3
    \/ CallFromUtils

Spec == Init /\ [][Next]_vars
-----------------------------------------------------------------------------
(* Properties *)

GridPcs == {"ip1", "ip2", "rev_cn", "rev_fb", "done", "raised"}
ChainDone == pc \in {"rev_cn", "rev_fb", "done", "raised"}
Queried(svc) == {i \in 1..Len(calls) : calls[i].svc = svc}
Fields == {"country_name", "country_iso_code", "region", "latitude", "longitude"}

\* the value is a str containing "china" in any casing
HasMarker(v) ==
    /\ v.t = "str"
    /\ \E i \in 1..Len(v.s) :
         /\ i + 4 <= Len(v.s)
         /\ LowerStr(SubSeq(v.s, i, i + 4)) = <<"c", "h", "i", "n", "a">>

\* the spellings of province p, as Python values
Names(p) == {Str(v) : v \in Spellings(p)}

\* C1: get_grid_area lets no exception escape, whatever the outcomes of the
\* two IP geolocation calls and of the reverse-geocoding call.
GetGridAreaNeverRaises == pc # "raised"

\* C2 as claimed: a country without the marker yields a sentinel that is
\* not the unknown-zone sentinel.
NonMarkerCountryYieldsOwnSentinel ==
    (pc = "done" /\ ~HasMarker(rec.country_name)) => zone # UNKNOWN

\* C2 as amended: whenever get_grid_area returns and the country name it
\* holds is absent or without the marker, the value returned is the one
\* unknown-zone sentinel, whatever the region and whichever lookups worked.
NonMarkerCountryYieldsUnknown ==
    (pc = "done" /\ ~HasMarker(rec.country_name)) => zone = UNKNOWN

NonMarkerCountryWitness ==
    /\ pc = "done"
    /\ rec.country_name = Str(S_Canada)
    /\ rec.region = Str(S_guangdong)
    /\ zone = UNKNOWN

\* C3 as claimed: no step of get_grid_area changes a field that is
\* non-empty before it.
MergeIsFillMissing ==
    [][\A f \in Fields : Truthy(rec[f]) => rec'[f] = rec[f]]_vars

\* C3 as amended: the merge of a reverse-geocoding response keeps every
\* non-empty field; the merge of an IP response sets latitude, longitude and
\* country name to the response's values, and keeps a non-empty ISO code or
\* region only when the response carries no value for it.
MergeFillsOnlyFromReverse ==
    [][/\ pc \in {"rev_cn", "rev_fb"} =>
            \A f \in Fields : Truthy(rec[f]) => rec'[f] = rec[f]
       /\ (pc \in {"ip1", "ip2"} /\ data'.kind = "dict") =>
            /\ rec'.latitude = Or(data'.latitude, data'.lat)
            /\ rec'.longitude = Or(data'.longitude, data'.lon)
            /\ rec'.country_name = data'.country
            /\ (~Truthy(data'.country_code3) /\ ~Truthy(data'.countryCode)) =>
                   rec'.country_iso_code = rec.country_iso_code
            /\ (Truthy(rec.region) /\ ~Truthy(data'.region) /\ ~Truthy(data'.regionName)) =>
                   rec'.region = rec.region]_vars

MergeWitness ==
    /\ pc = "done"
    /\ addr.found = "loc"
    /\ addr.country = Str(S_China)
    /\ addr.state = Str(S_Guangdong \o SuffixProvince)
    /\ rec.country_name = Str(S_Canada)
    /\ rec.region = Str(S_quebec)

\* C4: with a country containing the marker, every spelling of a province
\* key (as keyed, upper-cased, capitalised, with an administrative suffix)
\* yields the table entry of that key.
RegionSpellingYieldsEntry ==
    \A p \in Provinces :
        (/\ pc = "done"
         /\ data.kind = "dict"
         /\ HasMarker(data.country)
         /\ Or(data.region, data.regionName) \in Names(p))
        => zone = GridAreaOf(p)

RegionSpellingWitness ==
    /\ pc = "done"
    /\ HasMarker(data.country)
    /\ data.region = Str(S_Guangdong \o SuffixProvince)
    /\ rec.region = Str(S_guangdong \o LowerStr(SuffixProvince))
    /\ zone = NANFANG

\* C5: when an IP endpoint answers with a marker country, known coordinates
\* and the region still empty, the reverse lookup is made, and when it
\* returns a state naming province p the result is the table entry of p and
\* the region is the lower-cased state.
KnownCoords(d) ==
    /\ d.latitude # None \/ d.lat # None
    /\ d.longitude # None \/ d.lon # None

ReverseSupplementResolves ==
    [][/\ (/\ pc \in {"ip1", "ip2"}
           /\ pc' \in {"rev_cn", "rev_fb", "done"}
           /\ data'.kind = "dict"
           /\ HasMarker(data'.country)
           /\ ~Truthy(MergedRegion(rec, data'))
           /\ KnownCoords(data'))
          => pc' = "rev_cn"
       /\ \A p \in Provinces :
            (pc = "rev_cn" /\ addr'.found = "loc" /\ addr'.state \in Names(p))
            => (zone' = GridAreaOf(p) /\ rec'.region = Str(LowerStr(addr'.state.s)))]_vars

\* C6: from_geo_js always goes on to return a record and raises nothing,
\* and whenever the secondary call fails after the primary did, the record
\* is the fixed default location.
FromGeoJsFallsBackToDefault ==
    /\ pc \in {"gj1", "gj2", "gj3"} =>
           ENABLED (DirectPrimary \/ DirectSecondary \/ DirectIso3)
    /\ pc \in {"gj1", "gj2", "gj3", "gj_done"} => exc = NoExc
    /\ pc = "gj_done" => (geo.latitude.t = "num" /\ geo.longitude.t = "num")
    /\ (pc = "gj_done" /\ Len(calls) >= 2 /\ calls[2].out # "ok") =>
           /\ geo.country_iso_code = Str(S_CAN)
           /\ geo.country_name = Str(S_Canada)
           /\ geo.region = Str(S_quebec)
           /\ geo.latitude = Num(468)
           /\ geo.longitude = Num(-712)
           /\ geo.country_2letter_iso_code = Str(S_CA)

FromGeoJsDefaultWitness ==
    /\ pc = "gj_done"
    /\ calls = <<Call("geojs", "timeout"), Call("ip-api", "timeout")>>
    /\ geo.country_name = Str(S_Canada)

\* C7: a value returned by from_utils is on private infrastructure exactly
\* when no metadata was found or the provider is aws or azure, and then
\* provider and region are both absent; for another provider the provider
\* and its extracted region are kept.
PrivateInfraExactly ==
    pc = "cloud_done" =>
        LET none == ~env.found \/ env.empty
            reset == LowerStr(env.provider) \in {S_aws, S_azure}
        IN  /\ is_on_private_infra(cloud) <=> (none \/ reset)
            /\ (none \/ reset) => (cloud.provider = None /\ cloud.region = None)
            /\ ~(none \/ reset) => (cloud.provider = Str(S_gcp) /\ cloud.region = Str(S_us_central1))

PrivateInfraWitness ==
    /\ pc = "cloud_done"
    /\ env.found /\ ~env.empty
    /\ env.provider = S_AWS
    /\ env.region = Str(S_us_east_1)
    /\ is_on_private_infra(cloud)

\* C8: the secondary endpoint is queried only after the primary failed, a
\* primary success leaves the secondary unqueried, each endpoint is queried
\* at most once, and the chain yields no data only if both endpoints failed.
IpChainShortCircuits ==
    pc \in GridPcs =>
        /\ \A i \in Queried("ip-api") :
               i = 2 /\ calls[1].svc = "geojs" /\ calls[1].out \in Failures
        /\ (Len(calls) >= 1 /\ calls[1].out = "ok") => Queried("ip-api") = {}
        /\ Cardinality(Queried("geojs")) <= 1
        /\ Cardinality(Queried("ip-api")) <= 1
        /\ (ChainDone /\ data = NullBody) =>
               (Len(calls) >= 2 /\ calls[1].out \in Failures /\ calls[2].out \in Failures)

\* C9: after an IP endpoint answered with a country that lacks the marker,
\* get_grid_area makes no reverse-geocoding call before it returns.
NonMarkerCountryReturnsAtOnce ==
    (/\ pc \in GridPcs
     /\ Len(calls) >= 1
     /\ data.kind = "dict"
     /\ data.country.t = "str"
     /\ ~HasMarker(data.country))
    => (pc # "rev_fb" /\ Queried("nominatim") = {})

\* C10: from_geo_js returns the default only when both IP calls fail: when
\* the primary fails and the secondary answers with a country, a region and
\* coordinates, the record returned carries the secondary's values.
DefaultOnlyAfterBothFail ==
    (/\ pc = "gj_done"
     /\ Len(calls) >= 2
     /\ calls[1].out \in DirectFailures
     /\ calls[2].out = "ok"
     /\ data.kind = "dict"
     /\ data.country.t = "str"
     /\ data.regionName.t = "str" /\ Truthy(data.regionName)
     /\ data.lat.t = "num" /\ data.lon.t = "num"
     /\ CaseFolds(data.countryCode))
    => /\ geo.country_name = data.country
       /\ geo.region = Str(LowerStr(data.regionName.s))
       /\ geo.latitude = data.lat
       /\ geo.longitude = data.lon
====
